---- MODULE Spec2Model ----
(***************************************************************************)
(* A model of the blitztime TypeScript wrapper: the Timer / TimerSide      *)
(* clock computations of src/src/types.ts and the TimerConnection event    *)
(* dispatcher of src/src/socket.ts.                                        *)
(*                                                                         *)
(* Conventions.  A nullable value is a sequence of length at most one:     *)
(* <<>> is null (or an absent field), <<v>> is the value v.  Instants and  *)
(* durations are integers in milliseconds, as luxon keeps them.  A call    *)
(* that may throw yields [threw |-> BOOLEAN, value |-> ...].               *)
(***************************************************************************)
EXTENDS Integers, Sequences, FiniteSets, TLC

VARIABLES
    timer,      \* clock specifications: the Timer under query
    res,        \* clock specifications: the last query and what it returned
    listeners,  \* TimerConnection.listeners
    state,      \* TimerConnection.state
    last,       \* the last operation performed on the connection
    calls       \* the listener invocations made by the last fire

vars == <<timer, res, listeners, state, last, calls>>

(***************************************************************************)
(* Bounds of the model.                                                    *)
(***************************************************************************)
MaxStages == 2
MaxStartTurn == 2
MaxSeconds == 1
MaxTurnNumber == 4
MaxStartedAt == 1
MaxNowSteps == 5
NowStep == 500
MaxRegistrations == 2
MaxSnapshots == 2

(***************************************************************************)
(* Values.                                                                 *)
(***************************************************************************)
Null == <<>>

Some(v) == <<v>>

Return(v) == [threw |-> FALSE, value |-> v]

Throw(msg) == [threw |-> TRUE, value |-> msg]

\* no query made yet
NoResult == [op |-> "none"]

MillisPerSecond == 1000

\* loadDuration: seconds to a Duration (milliseconds)
loadDuration(seconds) == seconds * MillisPerSecond

\* loadDateTime: epoch seconds to a DateTime (epoch milliseconds)
loadDateTime(seconds) == seconds * MillisPerSecond

\* loadOptionalDateTime: null stays null
loadOptionalDateTime(seconds) ==
    IF seconds = Null THEN Null ELSE Some(loadDateTime(seconds[1]))

(***************************************************************************)
(* StageSettings, TimerSide and Timer, assembled from a payload.           *)
(***************************************************************************)
\* a payload is a record; a field it does not carry reads as undefined
Has(data, key) == key \in DOMAIN data

\* data[key], with a stand-in where the field reads as undefined
Prop(data, key) == IF Has(data, key) THEN data[key] ELSE Null

\* an object without the properties that were assigned undefined
Defined(object, undefinedKeys) ==
    [key \in DOMAIN object \ undefinedKeys |-> object[key]]

\* the properties left undefined because the payload lacks their field;
\* fields pairs each property with the payload field it is copied from
UndefinedKeys(data, fields) ==
    {pair[1] : pair \in {pair \in fields : ~Has(data, pair[2])}}

\* StageSettings.load
StageSettingsLoad(data) ==
    Defined(
        [startTurn        |-> Prop(data, "start_turn"),
         fixedTimePerTurn |-> loadDuration(data.seconds_fixed_per_turn),
         incrementPerTurn |-> loadDuration(data.seconds_incremement_per_turn),
         initialTime      |-> loadDuration(data.initial_seconds)],
        UndefinedKeys(data, {<<"startTurn", "start_turn">>}))

\* new TimerSide(data, timer); the back-reference is kept by the owner
TimerSideNew(data) ==
    Defined(
        [isTurn            |-> Prop(data, "is_turn"),
         totalTimeLastTurn |-> loadDuration(data.total_time),
         connected         |-> Prop(data, "connected")],
        UndefinedKeys(data, {<<"isTurn", "is_turn">>, <<"connected", "connected">>}))

\* new Timer(data): data.settings.map throws when settings is absent or
\* null; every other field is copied as it is found, undefined when absent
TimerNew(data) ==
    IF ~Has(data, "settings") \/ data.settings = Null
    THEN Throw("TypeError")
    ELSE Return(Defined(
        [id            |-> Prop(data, "id"),
         turnNumber    |-> Prop(data, "turn_number"),
         turnStartedAt |-> loadOptionalDateTime(data.turn_started_at),
         startedAt     |-> loadOptionalDateTime(data.started_at),
         hasEnded      |-> Prop(data, "has_ended"),
         endReporter   |-> Prop(data, "end_reporter"),
         home          |-> IF data.home = Null THEN Null
                           ELSE Some(TimerSideNew(data.home[1])),
         away          |-> IF data.away = Null THEN Null
                           ELSE Some(TimerSideNew(data.away[1])),
         settings      |-> [i \in 1..Len(data.settings[1]) |->
                               StageSettingsLoad(data.settings[1][i])],
         observers     |-> Prop(data, "observers"),
         managed       |-> Prop(data, "managed")],
        UndefinedKeys(data, {<<"id", "id">>, <<"turnNumber", "turn_number">>,
                             <<"hasEnded", "has_ended">>,
                             <<"endReporter", "end_reporter">>,
                             <<"observers", "observers">>,
                             <<"managed", "managed">>})))

(***************************************************************************)
(* Timer.stageSettings                                                     *)
(***************************************************************************)
NoFirstStage == "Invalid settings detected: no first stage."

\* a variant that compares with the turn number itself, not the turn pair
StartsByTurnNumber(startTurn, turnNumber) == startTurn <= turnNumber

\* stage.startTurn <= turn, where turn is turnNumber / 2 (not rounded) for a
\* turn number >= 0 and 0 otherwise
StartsByTurn(startTurn, turnNumber) ==
    IF turnNumber >= 0 THEN 2 * startTurn <= turnNumber ELSE startTurn <= 0

\* the loop over settings.slice().reverse(): from the last stored stage down
RECURSIVE SearchFrom(_, _, _)
SearchFrom(settings, turnNumber, i) ==
    IF i = 0 THEN Throw(NoFirstStage)
    ELSE IF StartsByTurn(settings[i].startTurn, turnNumber)
         THEN Return(settings[i])
         ELSE SearchFrom(settings, turnNumber, i - 1)

stageSettings(t) == SearchFrom(t.settings, t.turnNumber, Len(t.settings))

(***************************************************************************)
(* TimerSide: the derived clock quantities.  now is DateTime.now(), read   *)
(* by the call; the interval from turnStartedAt to now is a valid luxon    *)
(* Interval only when now >= turnStartedAt, which the callers below keep.  *)
(***************************************************************************)
\* Interval.fromDateTimes(turnStartedAt, now).toDuration()
IntervalDuration(from, to) == to - from

\* TimerSide.totalTimeRemaining
totalTimeRemaining(side, t, now) ==
    IF t.turnStartedAt = Null
    THEN LET stage == stageSettings(t)
         IN  IF stage.threw THEN stage ELSE Return(stage.value.initialTime)
    ELSE IF ~side.isTurn
    THEN Return(side.totalTimeLastTurn)
    ELSE LET stage == stageSettings(t)
             timeSpent == IntervalDuration(t.turnStartedAt[1], now)
                              - stage.value.fixedTimePerTurn
         IN  IF stage.threw THEN stage
             ELSE IF timeSpent < 0
                  THEN Return(side.totalTimeLastTurn)
                  ELSE Return(side.totalTimeLastTurn - timeSpent)

\* TimerSide.turnTimeRemaining
turnTimeRemaining(side, t, now) ==
    LET stage == stageSettings(t)
    IN  IF stage.threw THEN stage
        ELSE IF t.turnStartedAt = Null \/ ~side.isTurn
        THEN Return(stage.value.fixedTimePerTurn)
        ELSE LET timeSpent == IntervalDuration(t.turnStartedAt[1], now)
                 timeRemaining == stage.value.fixedTimePerTurn - timeSpent
             IN  IF timeRemaining > 0 THEN Return(timeRemaining) ELSE Return(0)

\* DateTime.fromSeconds(Number.MAX_SAFE_INTEGER): an invalid DateTime, with
\* invalidReason "invalid input"; its valueOf is NaN, so it compares with no
\* instant
MaxSafeInstant == [invalid |-> "invalid input"]

\* a DateTime at the given epoch milliseconds
Instant(ms) == [ts |-> ms]

\* TimerSide.timesOutAt
timesOutAt(side, t) ==
    IF t.turnStartedAt = Null
    THEN Return(MaxSafeInstant)
    ELSE LET stage == stageSettings(t)
         IN  IF stage.threw THEN stage
             ELSE Return(Instant(t.turnStartedAt[1] + side.totalTimeLastTurn
                                   + stage.value.fixedTimePerTurn))

(***************************************************************************)
(* Payloads the clock specifications draw from.                            *)
(***************************************************************************)
\* one stage of a payload; the increment and the initial time differ from
\* stage to stage so that a resolved stage is recognisable by them
StagePayload(s, f) ==
    [start_turn                   |-> s,
     seconds_fixed_per_turn       |-> f,
     seconds_incremement_per_turn |-> s,
     initial_seconds              |-> s + f + 1]

StagePayloads == {StagePayload(s, f) : s \in 0..MaxStartTurn, f \in 0..MaxSeconds}

\* every schedule of at most MaxStages stages, in any storage order
SchedulePayloads == UNION {[1..n -> StagePayloads] : n \in 0..MaxStages}

SidePayloads ==
    [is_turn : BOOLEAN, total_time : 0..MaxSeconds, connected : {TRUE}]

TimerPayload(id, turnNumber, turnStartedAt, home, away, settings) ==
    [id              |-> id,
     turn_number     |-> turnNumber,
     turn_started_at |-> turnStartedAt,
     started_at      |-> turnStartedAt,
     has_ended       |-> FALSE,
     end_reporter    |-> Null,
     observers       |-> 0,
     managed         |-> FALSE,
     settings        |-> settings,
     home            |-> home,
     away            |-> away]

TurnNumbers == (-1)..MaxTurnNumber

StartedAtPayloads == {Null} \cup {Some(s) : s \in 0..MaxStartedAt}

NowValues == {k * NowStep : k \in 0..MaxNowSteps}

Seats == {"home", "away"}

(***************************************************************************)
(* TimerConnection: initial state.                                         *)
(***************************************************************************)
EventNames == {"connect", "connect_error", "disconnect", "state_update", "error"}

ConnectionInit ==
    /\ listeners = [e \in EventNames |-> Null]
    /\ state = Null
    /\ last = [op |-> "constructor"]
    /\ calls = <<>>

connVars == <<listeners, state, last, calls>>

(***************************************************************************)
(* TimerConnection: listeners and the events that fire them.               *)
(*                                                                         *)
(* A listener is a callable of the application.  Three are modelled: f     *)
(* returns, r returns a promise that rejects, t throws.  Three more call   *)
(* back into the connection for the event being fired and then return:     *)
(* once removes itself, adder registers f, remover removes f.              *)
(***************************************************************************)
Listeners == {"f", "r", "t"}

Throws(listener) == listener = "t"

Rejects(listener) == listener = "r"

\* this.listeners.get(event) || []
ListenersOf(L, event) == IF L[event] = Null THEN <<>> ELSE L[event][1]

\* TimerConnection.addListener
addListener(L, event, listener) ==
    IF L[event] # Null
    THEN [L EXCEPT ![event] = Some(Append(L[event][1], listener))]
    ELSE [L EXCEPT ![event] = Some(<<listener>>)]

\* a variant that drops only the first occurrence of the listener
RECURSIVE DropFirst(_, _)
DropFirst(seq, x) ==
    IF seq = <<>> THEN <<>>
    ELSE IF Head(seq) = x THEN Tail(seq)
    ELSE <<Head(seq)>> \o DropFirst(Tail(seq), x)

removeListenerFirstOnly(L, event, listener) ==
    IF L[event] # Null
    THEN [L EXCEPT ![event] = Some(DropFirst(L[event][1], listener))]
    ELSE L

\* TimerConnection.removeListener
removeListener(L, event, listener) ==
    IF L[event] # Null
    THEN [L EXCEPT ![event] =
             Some(SelectSeq(L[event][1], LAMBDA item : item # listener))]
    ELSE L

\* the body of a listener called during a fire of name.  L is the map of
\* listeners, arr the array .map is walking, same whether arr is still the
\* array stored under name: addListener pushes onto the stored array,
\* removeListener stores a new one.
Invoke(listener, name, L, arr, same) ==
    IF listener = "adder"
    THEN [listeners |-> addListener(L, name, "f"),
          arr       |-> IF same /\ L[name] # Null THEN Append(arr, "f") ELSE arr,
          same      |-> same]
    ELSE IF listener \in {"once", "remover"}
    THEN [listeners |-> removeListener(L, name,
                                       IF listener = "once" THEN "once" ELSE "f"),
          arr       |-> arr,
          same      |-> same /\ L[name] = Null]
    ELSE [listeners |-> L, arr |-> arr, same |-> same]

\* the callback of .map, applied from index i up to the length len the array
\* had when .map began: a listener that throws ends the map, and the
\* listeners after it are not called.  Each call is recorded with the
\* connection's stored snapshot at the time of the call.
RECURSIVE MapFrom(_, _, _, _, _, _, _, _)
MapFrom(arr, len, i, name, data, stored, L, same) ==
    IF i > len THEN [calls |-> <<>>, listeners |-> L]
    ELSE LET call == [listener |-> arr[i], event |-> name,
                      data |-> data, stored |-> stored]
             after == Invoke(arr[i], name, L, arr, same)
         IN  IF Throws(arr[i])
             THEN [calls |-> <<call>>, listeners |-> after.listeners]
             ELSE LET rest == MapFrom(after.arr, len, i + 1, name, data, stored,
                                      after.listeners, after.same)
                  IN  [calls     |-> <<call>> \o rest.calls,
                       listeners |-> rest.listeners]

\* TimerConnection._triggerEvent: the calls made, how its promise settles,
\* and the listeners its callbacks left registered
triggerEvent(L, name, data, stored) ==
    LET arr  == ListenersOf(L, name)
        made == MapFrom(arr, Len(arr), 1, name, data, stored, L, L[name] # Null)
    IN  [calls     |-> made.calls,
         listeners |-> made.listeners,
         settled   |-> IF \E i \in 1..Len(made.calls) :
                              \/ Throws(made.calls[i].listener)
                              \/ Rejects(made.calls[i].listener)
                       THEN "rejected" ELSE "fulfilled"]

\* the {} passed to the listeners of connect, connect_error and disconnect
EmptyObject == [object |-> "{}"]

SpecialEvents == {"connect", "connect_error", "disconnect"}

DefaultErrorCode == 400

\* new ApiError(detail, code = 400)
ApiErrorNew(detail, code) ==
    [detail  |-> detail,
     message |-> detail,
     code    |-> IF code = Null THEN DefaultErrorCode ELSE code[1]]

\* a variant that fires the listeners before it stores the snapshot
onStateUpdateFireFirst(L, stored, rawState) ==
    LET t == TimerNew(rawState)
    IN  IF t.threw
        THEN [threw |-> TRUE, state |-> stored, calls |-> <<>>, listeners |-> L]
        ELSE LET fired == triggerEvent(L, "state_update", t.value, stored)
             IN  [threw |-> FALSE, state |-> Some(t.value),
                  calls |-> fired.calls, listeners |-> fired.listeners]

\* a variant that clears the stored snapshot when new Timer throws
onStateUpdateClearsOnFailure(L, stored, rawState) ==
    LET t == TimerNew(rawState)
    IN  IF t.threw
        THEN [threw |-> TRUE, state |-> Null, calls |-> <<>>, listeners |-> L]
        ELSE LET fired == triggerEvent(L, "state_update", t.value, Some(t.value))
             IN  [threw |-> FALSE, state |-> Some(t.value),
                  calls |-> fired.calls, listeners |-> fired.listeners]

\* TimerConnection._onStateUpdate: when new Timer throws nothing is stored
\* and nothing is fired
onStateUpdate(L, stored, rawState) ==
    LET t == TimerNew(rawState)
    IN  IF t.threw
        THEN [threw |-> TRUE, state |-> stored, calls |-> <<>>, listeners |-> L]
        ELSE LET fired == triggerEvent(L, "state_update", t.value, Some(t.value))
             IN  [threw |-> FALSE, state |-> Some(t.value),
                  calls |-> fired.calls, listeners |-> fired.listeners]

\* TimerConnection._onError: the error is built from the detail alone
onError(L, stored, rawError) ==
    LET error == ApiErrorNew(rawError.detail, Null)
        fired == triggerEvent(L, "error", error, stored)
    IN  [error |-> error, calls |-> fired.calls, listeners |-> fired.listeners]

(***************************************************************************)
(* Spec: the connection.                                                   *)
(***************************************************************************)
\* inbound 'state' payloads: well-formed snapshots, and one without settings
SnapshotPayload(n) ==
    TimerPayload(n, n, Some(n), Some([is_turn |-> TRUE, total_time |-> n,
                                      connected |-> TRUE]),
                 Null, Some(<<StagePayload(0, 0)>>))

RawStates ==
    {SnapshotPayload(n) : n \in 1..MaxSnapshots}
        \cup {[SnapshotPayload(1) EXCEPT !.settings = Null]}

\* inbound 'error' payloads
RawErrors == {[detail |-> "denied", code |-> Some(403)],
              [detail |-> "denied", code |-> Null]}

\* the events the application registers listeners for
ListenedEvents == {"connect", "state_update", "error"}

Registrations ==
    Len(ListenersOf(listeners, "connect"))
        + Len(ListenersOf(listeners, "connect_error"))
        + Len(ListenersOf(listeners, "disconnect"))
        + Len(ListenersOf(listeners, "state_update"))
        + Len(ListenersOf(listeners, "error"))

Count(seq, x) == Cardinality({i \in 1..Len(seq) : seq[i] = x})

Init ==
    /\ timer = Null
    /\ res = NoResult
    /\ ConnectionInit

AddListener(event, listener) ==
    /\ Registrations < MaxRegistrations
    /\ listeners' = addListener(listeners, event, listener)
    /\ last' = [op |-> "addListener", event |-> event, listener |-> listener]
    /\ calls' = <<>>
    /\ UNCHANGED <<state, timer, res>>

RemoveListener(event, listener) ==
    /\ listeners' = removeListener(listeners, event, listener)
    /\ last' = [op |-> "removeListener", event |-> event, listener |-> listener,
                removed |-> Count(ListenersOf(listeners, event), listener)]
    /\ calls' = <<>>
    /\ UNCHANGED <<state, timer, res>>

\* socket.on(event, () => this._triggerEvent(event, {}))
OnSpecialEvent(event) ==
    /\ calls' = triggerEvent(listeners, event, EmptyObject, state).calls
    /\ listeners' = triggerEvent(listeners, event, EmptyObject, state).listeners
    /\ last' = [op |-> "fire", event |-> event, data |-> EmptyObject]
    /\ UNCHANGED <<state, timer, res>>

\* socket.on('state', ...)
OnStateUpdate(rawState) ==
    LET done == onStateUpdate(listeners, state, rawState)
    IN  /\ state' = done.state
        /\ calls' = done.calls
        /\ listeners' = done.listeners
        /\ last' = IF done.threw
                   THEN [op |-> "state", threw |-> TRUE, raw |-> rawState]
                   ELSE [op |-> "fire", event |-> "state_update",
                         data |-> TimerNew(rawState).value, previous |-> state,
                         raw |-> rawState]
        /\ UNCHANGED <<timer, res>>

\* socket.on('error', ...)
OnError(rawError) ==
    LET done == onError(listeners, state, rawError)
    IN  /\ calls' = done.calls
        /\ listeners' = done.listeners
        /\ last' = [op |-> "fire", event |-> "error", data |-> done.error,
                    raw |-> rawError]
        /\ UNCHANGED <<state, timer, res>>

\* socket.emit(command, ...args): handed to the transport, nothing kept
Emitted(command, args) == [op |-> "emit", command |-> command, args |-> args]

StartTimer ==
    /\ last' = Emitted("start_timer", <<>>)
    /\ calls' = <<>>
    /\ UNCHANGED <<listeners, state, timer, res>>

EndTurn ==
    /\ last' = Emitted("end_turn", <<>>)
    /\ calls' = <<>>
    /\ UNCHANGED <<listeners, state, timer, res>>

OpponentTimedOut ==
    /\ last' = Emitted("opponent_timed_out", <<>>)
    /\ calls' = <<>>
    /\ UNCHANGED <<listeners, state, timer, res>>

AddTime(seconds) ==
    /\ last' = Emitted("add_time", <<seconds>>)
    /\ calls' = <<>>
    /\ UNCHANGED <<listeners, state, timer, res>>

Next ==
    \/ \E event \in ListenedEvents, listener \in Listeners : AddListener(event, listener)
    \/ \E event \in ListenedEvents, listener \in Listeners : RemoveListener(event, listener)
    \/ \E event \in SpecialEvents : OnSpecialEvent(event)
    \/ \E rawState \in RawStates : OnStateUpdate(rawState)
    \/ \E rawError \in RawErrors : OnError(rawError)
    \/ StartTimer
    \/ EndTurn
    \/ OpponentTimedOut
    \/ \E seconds \in 1..MaxSeconds : AddTime(seconds)

Spec == Init /\ [][Next]_vars

(***************************************************************************)
(* SpecRegistry: registration and removal on lists long enough for a       *)
(* removal to leave several listeners behind.                              *)
(***************************************************************************)
MaxRegistryRegistrations == 4

RegistryEvents == {"connect", "error"}

InitRegistry ==
    /\ timer = Null
    /\ res = NoResult
    /\ ConnectionInit

RegistryAddListener(event, listener) ==
    /\ Registrations < MaxRegistryRegistrations
    /\ listeners' = addListener(listeners, event, listener)
    /\ last' = [op |-> "addListener", event |-> event, listener |-> listener]
    /\ calls' = <<>>
    /\ UNCHANGED <<state, timer, res>>

RegistryRemoveListener(event, listener) ==
    /\ listeners' = removeListener(listeners, event, listener)
    /\ last' = [op |-> "removeListener", event |-> event, listener |-> listener,
                before |-> ListenersOf(listeners, event)]
    /\ calls' = <<>>
    /\ UNCHANGED <<state, timer, res>>

NextRegistry ==
    \/ \E event \in RegistryEvents, listener \in Listeners :
          RegistryAddListener(event, listener)
    \/ \E event \in RegistryEvents, listener \in Listeners :
          RegistryRemoveListener(event, listener)

SpecRegistry == InitRegistry /\ [][NextRegistry]_vars

(***************************************************************************)
(* SpecMidFire: listeners that register and remove during a fire.          *)
(***************************************************************************)
MaxMidFireRegistrations == 3

MidFireListeners == {"f", "t", "once", "adder", "remover"}

\* the event whose listeners are registered, removed and fired
MidFireEvent == "connect"

InitMidFire ==
    /\ timer = Null
    /\ res = NoResult
    /\ ConnectionInit

AddMidFireListener(listener) ==
    /\ Len(ListenersOf(listeners, MidFireEvent)) < MaxMidFireRegistrations
    /\ listeners' = addListener(listeners, MidFireEvent, listener)
    /\ last' = [op |-> "addListener", event |-> MidFireEvent, listener |-> listener]
    /\ calls' = <<>>
    /\ UNCHANGED <<state, timer, res>>

RemoveMidFireListener(listener) ==
    /\ listeners' = removeListener(listeners, MidFireEvent, listener)
    /\ last' = [op |-> "removeListener", event |-> MidFireEvent,
                listener |-> listener]
    /\ calls' = <<>>
    /\ UNCHANGED <<state, timer, res>>

\* socket.on('connect', () => this._triggerEvent('connect', {}))
FireMidFire ==
    LET done == triggerEvent(listeners, MidFireEvent, EmptyObject, state)
    IN  /\ Len(ListenersOf(done.listeners, MidFireEvent)) <= MaxMidFireRegistrations
        /\ calls' = done.calls
        /\ listeners' = done.listeners
        /\ last' = [op |-> "fire", event |-> MidFireEvent, data |-> EmptyObject,
                    before |-> ListenersOf(listeners, MidFireEvent)]
        /\ UNCHANGED <<state, timer, res>>

NextMidFire ==
    \/ \E listener \in MidFireListeners : AddMidFireListener(listener)
    \/ \E listener \in MidFireListeners : RemoveMidFireListener(listener)
    \/ FireMidFire

SpecMidFire == InitMidFire /\ [][NextMidFire]_vars

(***************************************************************************)
(* SpecAssemble: new Timer(data) on well-formed payloads and on payloads   *)
(* that lack one required field.                                           *)
(***************************************************************************)
RequiredTimerFields ==
    {"id", "turn_number", "has_ended", "observers", "managed", "settings"}

RequiredSideFields == {"is_turn", "total_time", "connected"}

RequiredStageFields ==
    {"start_turn", "seconds_fixed_per_turn", "seconds_incremement_per_turn",
     "initial_seconds"}

\* the payload without one of its fields
DropField(data, key) == [k \in DOMAIN data \ {key} |-> data[k]]

WellFormedPayloads ==
    {TimerPayload(n, n, at,
                  IF seat = "home" THEN Some(side) ELSE Null,
                  IF seat = "away" THEN Some(side) ELSE Null,
                  Some(<<StagePayload(0, 0)>>)) :
        n \in 1..MaxSnapshots, at \in StartedAtPayloads, seat \in Seats,
        side \in {[is_turn |-> TRUE, total_time |-> 1, connected |-> TRUE]}}

\* the payloads that lack a field the constructors copy without reading it;
\* a lacking duration is left to luxon and is not drawn
LackingPayloads(data) ==
    {DropField(data, key) : key \in RequiredTimerFields}
        \cup {[data EXCEPT !.settings =
                   Some(<<DropField(data.settings[1][1], "start_turn")>>)]}
        \cup {[data EXCEPT ![seat] = Some(DropField(data[seat][1], key))] :
                 seat \in {seat \in Seats : data[seat] # Null},
                 key \in {"is_turn", "connected"}}

AssemblePayloads ==
    WellFormedPayloads \cup UNION {LackingPayloads(data) : data \in WellFormedPayloads}

InitAssemble ==
    /\ timer = Null
    /\ res = NoResult
    /\ ConnectionInit

\* new Timer(data), as HttpClient.getTimer and _onStateUpdate call it
Assemble(data) ==
    /\ res' = [op |-> "newTimer", raw |-> data, out |-> TimerNew(data)]
    /\ UNCHANGED <<timer, connVars>>

NextAssemble == \E data \in AssemblePayloads : Assemble(data)

SpecAssemble == InitAssemble /\ [][NextAssemble]_vars

(***************************************************************************)
(* SpecStage: stage resolution on every schedule, in any storage order.    *)
(***************************************************************************)
InitStage ==
    /\ \E tn \in TurnNumbers, sch \in SchedulePayloads :
          timer = TimerNew(TimerPayload(1, tn, Null, Null, Null, Some(sch))).value
    /\ res = NoResult
    /\ ConnectionInit

StageSettingsGet ==
    /\ res' = [op |-> "stageSettings", out |-> stageSettings(timer)]
    /\ UNCHANGED <<timer, connVars>>

NextStage == StageSettingsGet

SpecStage == InitStage /\ [][NextStage]_vars

(***************************************************************************)
(* SpecClock: the derived quantities of the one seated side of a timer.    *)
(***************************************************************************)
InitClock ==
    /\ \E tn \in TurnNumbers, at \in StartedAtPayloads,
          sch \in SchedulePayloads, side \in SidePayloads, seat \in Seats :
          timer = TimerNew(TimerPayload(1, tn, at,
                               IF seat = "home" THEN Some(side) ELSE Null,
                               IF seat = "away" THEN Some(side) ELSE Null,
                               Some(sch))).value
    /\ res = NoResult
    /\ ConnectionInit

\* the instants at which a side may be queried: any when the timer has not
\* started, and none before turnStartedAt when it has
QueryTimes == {now \in NowValues : timer.turnStartedAt = Null \/ now >= timer.turnStartedAt[1]}

TotalTimeRemaining(seat, now) ==
    /\ timer[seat] # Null
    /\ res' = [op |-> "totalTimeRemaining", seat |-> seat, now |-> now,
               out |-> totalTimeRemaining(timer[seat][1], timer, now)]
    /\ UNCHANGED <<timer, connVars>>

TurnTimeRemaining(seat, now) ==
    /\ timer[seat] # Null
    /\ res' = [op |-> "turnTimeRemaining", seat |-> seat, now |-> now,
               out |-> turnTimeRemaining(timer[seat][1], timer, now)]
    /\ UNCHANGED <<timer, connVars>>

TimesOutAt(seat, now) ==
    /\ timer[seat] # Null
    /\ res' = [op |-> "timesOutAt", seat |-> seat, now |-> now,
               out |-> timesOutAt(timer[seat][1], timer)]
    /\ UNCHANGED <<timer, connVars>>

NextClock ==
    \/ \E seat \in Seats, now \in QueryTimes : TotalTimeRemaining(seat, now)
    \/ \E seat \in Seats, now \in QueryTimes : TurnTimeRemaining(seat, now)
    \/ \E seat \in Seats, now \in QueryTimes : TimesOutAt(seat, now)

SpecClock == InitClock /\ [][NextClock]_vars

(***************************************************************************)
(* Stage resolution: C1, C2 (SpecStage).                                   *)
(***************************************************************************)
Stages(t) == {t.settings[i] : i \in 1..Len(t.settings)}

UniqueStartTurns(t) ==
    \A i, j \in 1..Len(t.settings) :
        t.settings[i].startTurn = t.settings[j].startTurn => i = j

HasZeroStart(t) == \E s \in Stages(t) : s.startTurn = 0

ValidSchedule(t) == UniqueStartTurns(t) /\ HasZeroStart(t)

\* floor(turnNumber / 2), and 0 for a negative turn number
TurnPair(t) == IF t.turnNumber >= 0 THEN t.turnNumber \div 2 ELSE 0

StartedStages(t) == {s \in Stages(t) : s.startTurn <= TurnPair(t)}

\* the stage of a valid schedule that governs the turn pair
GoverningStage(t) ==
    CHOOSE s \in StartedStages(t) : \A o \in StartedStages(t) : o.startTurn <= s.startTurn

Resolved == res.op = "stageSettings"

\* C1 (as claimed): on a schedule with unique startTurn values and a
\* zero-start stage, in whatever order it is stored, stageSettings at a turn
\* number >= 0 returns the stage with the largest startTurn <= floor(turnNumber/2).
C1_LargestStartedStageInAnyOrder ==
    (Resolved /\ ValidSchedule(timer) /\ timer.turnNumber >= 0)
        => res.out = Return(GoverningStage(timer))

\* C2 (as claimed): on a schedule without a zero-start stage stageSettings
\* fails with the 'no first stage' error at every turn number.
C2_AlwaysFailsWithoutZeroStart ==
    (Resolved /\ ~HasZeroStart(timer)) => res.out = Throw(NoFirstStage)

\* C2 (amended): on a schedule without a zero-start stage stageSettings fails
\* with the 'no first stage' error exactly when no stage has
\* startTurn <= floor(turnNumber/2) (the turn pair, 0 for a negative turn
\* number); otherwise it returns a stage of the schedule that has started.
C2_FailsUntilAStageHasStarted ==
    (Resolved /\ ~HasZeroStart(timer))
        => /\ res.out.threw <=> StartedStages(timer) = {}
           /\ res.out.threw => res.out.value = NoFirstStage
           /\ ~res.out.threw => res.out.value \in StartedStages(timer)

C2_Witness ==
    /\ Resolved
    /\ ~HasZeroStart(timer)
    /\ Len(timer.settings) > 0
    /\ ~res.out.threw
    /\ timer.turnNumber = 2 * res.out.value.startTurn

(***************************************************************************)
(* Derived clock quantities: C3 .. C6 (SpecClock).                         *)
(***************************************************************************)
Started == timer.turnStartedAt # Null

QueriedSide == timer[res.seat][1]

Elapsed == res.now - timer.turnStartedAt[1]

Fixed == GoverningStage(timer).fixedTimePerTurn

\* C3: on a started timer with a valid schedule, at now >= turnStartedAt,
\* totalTimeRemaining is totalTimeLastTurn for the side not on turn; for the
\* side on turn it is totalTimeLastTurn while the elapsed time is within the
\* stage's fixedTimePerTurn and totalTimeLastTurn minus the overrun after,
\* below zero included.
C3_BankRemaining ==
    (res.op = "totalTimeRemaining" /\ Started /\ ValidSchedule(timer))
        => res.out = Return(
               IF ~QueriedSide.isTurn THEN QueriedSide.totalTimeLastTurn
               ELSE IF Elapsed <= Fixed THEN QueriedSide.totalTimeLastTurn
               ELSE QueriedSide.totalTimeLastTurn - (Elapsed - Fixed))

\* an instant no earlier than any instant the timer or a query can name
MaximumInstant(d) ==
    /\ Has(d, "ts")
    /\ \A now \in NowValues : d.ts >= now

\* C4: on a timer that has not started, with a valid schedule, whatever the
\* side's isTurn and totalTimeLastTurn and whatever now: totalTimeRemaining is
\* the resolved stage's initialTime, turnTimeRemaining its fixedTimePerTurn,
\* and timesOutAt the 'never' sentinel, the maximum instant.
C4_NotStarted ==
    (~Started /\ ValidSchedule(timer))
        => /\ res.op = "totalTimeRemaining"
                => res.out = Return(GoverningStage(timer).initialTime)
           /\ res.op = "turnTimeRemaining"
                => res.out = Return(GoverningStage(timer).fixedTimePerTurn)
           /\ res.op = "timesOutAt"
                => ~res.out.threw /\ MaximumInstant(res.out.value)

\* C5: turnTimeRemaining is never negative: for the side on turn of a started
\* timer it is fixedTimePerTurn minus the elapsed time while that is positive
\* and zero from then on; for a side not on turn it is the full
\* fixedTimePerTurn.
C5_TurnRemaining ==
    (res.op = "turnTimeRemaining" /\ ValidSchedule(timer))
        => /\ ~res.out.threw
           /\ res.out.value >= 0
           /\ (Started /\ QueriedSide.isTurn)
                => res.out.value = (IF Fixed - Elapsed > 0 THEN Fixed - Elapsed ELSE 0)
           /\ ~QueriedSide.isTurn => res.out.value = Fixed

\* C6: on a started timer with a valid schedule timesOutAt is
\* turnStartedAt + totalTimeLastTurn + fixedTimePerTurn, whatever now is.
C6_TimesOutAt ==
    (res.op = "timesOutAt" /\ Started /\ ValidSchedule(timer))
        => res.out = Return(Instant(timer.turnStartedAt[1]
                                      + QueriedSide.totalTimeLastTurn + Fixed))

(***************************************************************************)
(* The dispatcher: C7, C8, C10 (Spec) and C9 (SpecRegistry).               *)
(***************************************************************************)
Fired == last.op = "fire"

\* the listeners called by the last operation, in the order of the calls
Called == [i \in 1..Len(calls) |-> calls[i].listener]

\* C7 (as claimed): a fire of an event with payload P calls exactly the
\* listeners registered for that event, once per registration, in
\* registration order, each with P; none when none is registered.
C7_FireCallsExactlyTheRegistered ==
    Fired => /\ Called = ListenersOf(listeners, last.event)
             /\ \A i \in 1..Len(calls) :
                   calls[i].event = last.event /\ calls[i].data = last.data

\* C8 (as claimed): when a listener of the fired event fails, by throwing or
\* by rejecting, every listener registered for the event is still called
\* once, wherever the failing one stands.
C8_FailureDoesNotStopTheOthers ==
    (Fired /\ \E i \in 1..Len(ListenersOf(listeners, last.event)) :
                 LET l == ListenersOf(listeners, last.event)[i]
                 IN  Throws(l) \/ Rejects(l))
        => \A l \in Listeners :
               Count(Called, l) = Count(ListenersOf(listeners, last.event), l)

\* the elements of seq other than x, in their order
RECURSIVE Without(_, _)
Without(seq, x) ==
    IF seq = <<>> THEN <<>>
    ELSE IF Head(seq) = x THEN Without(Tail(seq), x)
    ELSE <<Head(seq)>> \o Without(Tail(seq), x)

\* C9: removeListener(name, fn) removes every occurrence of fn from the list
\* of name and nothing else: the other listeners of name keep their order,
\* the lists of the other events and the stored snapshot are unchanged, no
\* listener is called, and when fn is not registered for name (also when
\* name has no list) nothing changes at all.
C9_RemoveListenerFrame ==
    [][last'.op = "removeListener" =>
          LET name == last'.event
              fn == last'.listener
          IN  /\ \A other \in EventNames \ {name} : listeners'[other] = listeners[other]
              /\ listeners[name] = Null => listeners'[name] = Null
              /\ listeners[name] # Null =>
                    /\ listeners'[name] # Null
                    /\ listeners'[name][1] = Without(listeners[name][1], fn)
              /\ Count(ListenersOf(listeners, name), fn) = 0 => listeners' = listeners
              /\ state' = state
              /\ calls' = <<>>]_vars

\* a listener standing between two different listeners has just been removed,
\* while another event has listeners too
C9_Witness ==
    /\ last.op = "removeListener"
    /\ Has(last, "before")
    /\ \E i, j, k \in 1..Len(last.before) :
          /\ i < j /\ j < k
          /\ last.before[j] = last.listener
          /\ last.before[i] # last.listener
          /\ last.before[k] # last.listener
          /\ last.before[i] # last.before[k]
    /\ Len(ListenersOf(listeners, last.event)) = 2
    /\ \E other \in EventNames \ {last.event} :
          Len(ListenersOf(listeners, other)) > 0

\* C10: when a snapshot assembles, it is stored before any state_update
\* listener is called: every state_update listener called with S finds S
\* stored, and S is the snapshot assembled from the payload.
C10_StoredBeforeListenersRun ==
    /\ \A i \in 1..Len(calls) :
          calls[i].event = "state_update" => calls[i].stored = Some(calls[i].data)
    /\ (Fired /\ last.event = "state_update") => state = Some(last.data)

C10_Witness ==
    /\ Fired
    /\ last.event = "state_update"
    /\ last.previous # Null
    /\ last.previous # state
    /\ Len(calls) = 2
    /\ calls[2].stored = Some(last.data)

(***************************************************************************)
(* Snapshot assembly: C11 (SpecAssemble).                                  *)
(***************************************************************************)
\* some required field of the payload, of a stage or of a present side is absent
LacksRequiredField(data) ==
    \/ RequiredTimerFields \ DOMAIN data # {}
    \/ /\ Has(data, "settings")
       /\ data.settings # Null
       /\ \E i \in 1..Len(data.settings[1]) :
             RequiredStageFields \ DOMAIN data.settings[1][i] # {}
    \/ \E seat \in Seats :
          data[seat] # Null /\ RequiredSideFields \ DOMAIN data[seat][1] # {}

\* C11 (as claimed): assembling a Timer from a payload that lacks a required
\* field fails with an error; it never succeeds with the field left absent.
C11_LackingPayloadFails ==
    (res.op = "newTimer" /\ LacksRequiredField(res.raw)) => res.out.threw

(***************************************************************************)
(* Inbound errors: C12 (Spec).                                             *)
(***************************************************************************)
\* C12 (as claimed): an inbound error payload {detail, code} reaches every
\* 'error' listener as an ApiError with that detail and that code; the code
\* is 400 only when the payload carries none.
C12_ErrorDeliveredVerbatim ==
    (Fired /\ last.event = "error")
        => /\ Called = ListenersOf(listeners, "error")
           /\ \A i \in 1..Len(calls) :
                 /\ calls[i].data.detail = last.raw.detail
                 /\ calls[i].data.code =
                        (IF last.raw.code = Null THEN 400 ELSE last.raw.code[1])

(***************************************************************************)
(* Registration and removal during a fire: C13 (SpecMidFire).              *)
(***************************************************************************)
\* the listeners a fire called, in call order
CalledOf(made) == [i \in 1..Len(made) |-> made[i].listener]

\* C13: a fire during which listeners call addListener or removeListener for
\* the fired event calls every listener registered when it began exactly
\* once, a later one removed during the fire included, and calls no listener
\* added during it; the change shows in the registrations the fire leaves
\* for the next one.
C13_MidFireChangeWaitsForNextFire ==
    (/\ last.op = "fire"
     /\ Has(last, "before")
     /\ \E i \in 1..Len(calls) : calls[i].listener \in {"once", "adder", "remover"})
        => /\ \A l \in MidFireListeners :
                 Count(CalledOf(calls), l) = Count(last.before, l)
           /\ Count(last.before, "once") > 0
                 => Count(ListenersOf(listeners, last.event), "once") = 0
           /\ (Count(last.before, "adder") > 0 /\ Count(last.before, "remover") = 0)
                 => Count(ListenersOf(listeners, last.event), "f")
                        = Count(last.before, "f") + Count(last.before, "adder")
           /\ (Count(last.before, "remover") > 0 /\ Count(last.before, "adder") = 0)
                 => Count(ListenersOf(listeners, last.event), "f") = 0

(***************************************************************************)
(* The stored snapshot: C14 (Spec).                                        *)
(***************************************************************************)
\* a payload that new Timer accepts
Assembles(raw) == Has(raw, "settings") /\ raw.settings # Null

\* the snapshot a payload carrying every field stands for, field by field
ExpectedSide(side) ==
    IF side = Null THEN Null
    ELSE Some([isTurn            |-> side[1].is_turn,
               totalTimeLastTurn |-> side[1].total_time * 1000,
               connected         |-> side[1].connected])

ExpectedSnapshot(raw) ==
    [id            |-> raw.id,
     turnNumber    |-> raw.turn_number,
     turnStartedAt |-> IF raw.turn_started_at = Null THEN Null
                       ELSE Some(raw.turn_started_at[1] * 1000),
     startedAt     |-> IF raw.started_at = Null THEN Null
                       ELSE Some(raw.started_at[1] * 1000),
     hasEnded      |-> raw.has_ended,
     endReporter   |-> raw.end_reporter,
     home          |-> ExpectedSide(raw.home),
     away          |-> ExpectedSide(raw.away),
     settings      |-> [i \in 1..Len(raw.settings[1]) |->
                          [startTurn        |-> raw.settings[1][i].start_turn,
                           fixedTimePerTurn |->
                               raw.settings[1][i].seconds_fixed_per_turn * 1000,
                           incrementPerTurn |->
                               raw.settings[1][i].seconds_incremement_per_turn * 1000,
                           initialTime      |->
                               raw.settings[1][i].initial_seconds * 1000]],
     observers     |-> raw.observers,
     managed       |-> raw.managed]

\* the step took in a 'state' payload
InboundState == last'.op = "state" \/ (last'.op = "fire" /\ last'.event = "state_update")

\* C14: the stored snapshot is null until an inbound snapshot assembles and
\* from then on is the snapshot assembled last, in full; the other events,
\* the outbound commands and addListener/removeListener leave it unchanged,
\* and an inbound snapshot that fails to assemble leaves it unchanged and
\* calls no listener.
C14_StoredSnapshot ==
    /\ state = Null
    /\ [][/\ (InboundState /\ Assembles(last'.raw))
                => /\ last'.op = "fire"
                   /\ state' = Some(ExpectedSnapshot(last'.raw))
          /\ (InboundState /\ ~Assembles(last'.raw))
                => /\ last'.op = "state"
                   /\ state' = state
                   /\ calls' = <<>>
          /\ ~InboundState => state' = state]_vars

\* a payload without settings arrived after a snapshot was stored, with a
\* state_update listener registered
C14_Witness ==
    /\ last.op = "state"
    /\ ~Assembles(last.raw)
    /\ state # Null
    /\ state[1].id = MaxSnapshots
    /\ Len(ListenersOf(listeners, "state_update")) > 0
    /\ calls = <<>>

====
